---- MODULE Spec2Model ----
(***************************************************************************)
(* Blocking SPI layer of embedded-hal (src/src/blocking/spi.rs):           *)
(*   - the default bulk adapters try_transfer / try_write / try_write_iter *)
(*     built on the single-word FullDuplex primitive (try_send, try_read), *)
(*   - the SpiWithCs wrapper that brackets a bulk operation with           *)
(*     cs.try_set_low() / cs.try_set_high().                               *)
(* One bus object is modelled.  It starts as a bare FullDuplex bus using   *)
(* the default adapters (depth = 0); SpiWithCs::new wraps the current      *)
(* object together with a fresh chip-select pin (depth + 1).  Wrapper      *)
(* level 1 is the innermost wrapper, level `depth` the outermost one; the  *)
(* default adapter is level 0.                                             *)
(* The FullDuplex primitive and the OutputPin are trait objects supplied   *)
(* by the board support: each of their operations may return any outcome   *)
(* its signature allows, and `log` records what they were asked to do.     *)
(***************************************************************************)
EXTENDS Integers, Sequences, FiniteSets, TLC

\* ---- bounds of the model ------------------------------------------------
MaxLen == 2
MaxWord == 1
MaxPoll == 1
MaxDepth == 2
MaxPinOps == 4

Words == 0..MaxWord
BusErrs == {"E1", "E2"}
PinErrs == {"P1", "P2"}
Ops == {"transfer", "write", "write_iter"}
Levels == 0..MaxDepth

Buffers == UNION {[1..n -> Words] : n \in 0..MaxLen}

VARIABLES
    depth,   \* number of SpiWithCs wrappers around the bus
    pc,      \* position of the running call
    lvl,     \* wrapper level whose code is executing (0: the adapter)
    op,      \* which bulk operation is running
    orig,    \* the words the caller passed in
    words,   \* the caller's buffer (mutated by try_transfer only)
    idx,     \* number of elements the for loop has pulled
    polls,   \* would-block answers seen by the current block!
    log,     \* completed operations of this call, in order
    ret,     \* ret[l]: what level l returned in this call
    pstate,  \* MyPin.state of the software-toggled pin (TRUE: set high)
    pinit,   \* the state that pin was constructed with
    phist    \* the operations applied to that pin, in order

busvars == <<depth, pc, lvl, op, orig, words, idx, polls, log, ret>>
pinvars == <<pstate, pinit, phist>>
vars == <<depth, pc, lvl, op, orig, words, idx, polls, log, ret, pstate, pinit, phist>>

\* ---- results ------------------------------------------------------------
\* Result<T, E>: tag <<>> is "has not returned", <<"Ok">> is Ok(val),
\* anything else is the error, outermost variant first.
NoRes == [tag |-> <<>>, val |-> <<>>]
Ok(v) == [tag |-> <<"Ok">>, val |-> v]
Err(e) == [tag |-> <<e>>, val |-> <<>>]
IsOk(r) == r.tag = <<"Ok">>
IsErr(r) == r.tag # <<>> /\ r.tag # <<"Ok">>
Returned(r) == r.tag # <<>>

\* SpiWithCsErr::Pin(p)
PinVariantAsSpi(p) == [tag |-> <<"Spi", p>>, val |-> <<>>]
PinVariant(p) == [tag |-> <<"Pin", p>>, val |-> <<>>]

\* .map_err(SpiWithCsErr::Spi)
MapErrSpiDrop(r) == IF IsOk(r) THEN r ELSE Ok(<<>>)
MapErrSpi(r) == IF IsOk(r) THEN r ELSE [tag |-> <<"Spi">> \o r.tag, val |-> <<>>]

\* ---- log ----------------------------------------------------------------
\* k: "call" | "low" | "high" | "send" | "read"
\* l: wrapper level (call, low, high) or word index (send, read)
\* w: the word sent or received (0 otherwise)
\* r: "ok" or the error the operation returned
Ev(k, l, w, r) == [k |-> k, l |-> l, w |-> w, r |-> r]


\* ---- the code's decisions -------------------------------------------------
\* Outcomes of a primitive or pin operation: "ok", "wb" (nb::Error::WouldBlock,
\* primitives only) or the error value it returned.

\* block!(..)? : poll again on would-block, go on after success, return the
\* error otherwise.
StepTimeout(out) == IF out = "ok" THEN "continue" ELSE "return"
StepIgnoreErr(out) == IF out = "wb" THEN "retry" ELSE "continue"
Step(out) == IF out = "wb" THEN "retry" ELSE IF out = "ok" THEN "continue" ELSE "return"

\* word.clone(): the word handed to try_send for loop position i.
SendWordFirst(ws, i) == ws[1]
SendWord(ws, i) == ws[i]

\* *word = block!(self.try_read())? in try_transfer; try_write and
\* try_write_iter drop the received word.
StoreWordAlways(o, ws, i, w) == [ws EXCEPT ![i] = w]
StoreWordNever(o, ws, i, w) == ws
StoreWord(o, ws, i, w) == IF o = "transfer" THEN [ws EXCEPT ![i] = w] ELSE ws

\* Ok(words) for try_transfer, Ok(()) for the two writes.
AdapterOkOrig(o, ws) == IF o = "transfer" THEN Ok(orig) ELSE Ok(<<>>)
AdapterOk(o, ws) == IF o = "transfer" THEN Ok(ws) ELSE Ok(<<>>)

\* self.cs.try_set_low().map_err(SpiWithCsErr::Pin)? : return on failure,
\* otherwise go on to the inner bus operation.
AfterLowIgnoreErr(r) == "bus"
AfterLow(r) == IF r = "ok" THEN "bus" ELSE "return"

\* let spi_res = self.spi.try_*(..).map_err(SpiWithCsErr::Spi);
\* self.cs.try_set_high().map_err(SpiWithCsErr::Pin)?;
\* spi_res
WrapperResultBusFirst(inner, r) ==
    IF IsErr(inner) \/ r = "ok" THEN MapErrSpi(inner) ELSE PinVariant(r)
WrapperResultMasked(inner, r) ==
    IF r = "ok" THEN MapErrSpiDrop(inner) ELSE PinVariant(r)
WrapperResult(inner, r) ==
    IF r = "ok" THEN MapErrSpi(inner) ELSE PinVariant(r)

\* Level L returns r to its caller: the wrapper one level up has captured
\* the result and is about to deassert; the outermost level returns to the
\* driver.
ReturnFrom(L, r) ==
    /\ ret' = [ret EXCEPT ![L] = r]
    /\ IF L = depth
         THEN pc' = "done" /\ lvl' = L
         ELSE pc' = "high" /\ lvl' = L + 1

\* ---- initial state ------------------------------------------------------
InitBus ==
    /\ depth = 0
    /\ pc = "idle"
    /\ lvl = 0
    /\ op = "transfer"
    /\ orig = <<>>
    /\ words = <<>>
    /\ idx = 0
    /\ polls = 0
    /\ log = <<>>
    /\ ret = [l \in Levels |-> NoRes]

\* let mut pin = MyPin { state: false };
InitPin ==
    /\ pstate = FALSE
    /\ pinit = FALSE
    /\ phist = <<>>

Init == InitBus /\ InitPin

\* ---- SpiWithCs::new -------------------------------------------------------
\* Wraps the current bus object (a bare bus or an SpiWithCs) together with
\* one more output pin; nothing is called on either.
New ==
    /\ pc = "idle"
    /\ depth < MaxDepth
    /\ depth' = depth + 1
    /\ UNCHANGED <<pc, lvl, op, orig, words, idx, polls, log, ret>>
    /\ UNCHANGED pinvars

\* ---- a driver calls try_transfer / try_write / try_write_iter -------------
Call(o, b) ==
    /\ pc = "idle"
    /\ op' = o
    /\ orig' = b
    /\ words' = b
    /\ idx' = 0
    /\ polls' = 0
    /\ ret' = [l \in Levels |-> NoRes]
    /\ log' = <<Ev("call", depth, 0, "ok")>>
    /\ lvl' = depth
    /\ pc' = IF depth = 0 THEN "loop" ELSE "low"
    /\ UNCHANGED depth
    /\ UNCHANGED pinvars

\* ---- SpiWithCs: assert chip select ---------------------------------------
\* (a wrapper that answers a failed assert with a defensive deassert)
SetLowThenDeassert(r) ==
    /\ pc = "low"
    /\ r # "ok"
    /\ log' = log \o <<Ev("low", lvl, 0, r), Ev("high", lvl, 0, "ok")>>
    /\ ReturnFrom(lvl, PinVariant(r))
    /\ UNCHANGED <<depth, op, orig, words, idx, polls>>
    /\ UNCHANGED pinvars

\* r: what try_set_low returned.
SetLow(r) ==
    /\ pc = "low"
    /\ IF AfterLow(r) = "bus"
         THEN /\ log' = log \o <<Ev("low", lvl, 0, r), Ev("call", lvl - 1, 0, "ok")>>
              /\ lvl' = lvl - 1
              /\ pc' = IF lvl - 1 = 0 THEN "loop" ELSE "low"
              /\ UNCHANGED ret
         ELSE /\ log' = Append(log, Ev("low", lvl, 0, r))
              /\ ReturnFrom(lvl, PinVariant(r))
    /\ UNCHANGED <<depth, op, orig, words, idx, polls>>
    /\ UNCHANGED pinvars

\* ---- default adapters: the for loop ---------------------------------------
LoopNext ==
    /\ pc = "loop"
    /\ idx < Len(orig)
    /\ idx' = idx + 1
    /\ pc' = "send"
    /\ UNCHANGED <<depth, lvl, op, orig, words, polls, log, ret>>
    /\ UNCHANGED pinvars

LoopEnd ==
    /\ pc = "loop"
    /\ idx >= Len(orig)
    /\ ReturnFrom(0, AdapterOk(op, words))
    /\ UNCHANGED <<depth, op, orig, words, idx, polls, log>>
    /\ UNCHANGED pinvars

\* block!(self.try_send(word.clone()))?
Send(out) ==
    /\ pc = "send"
    /\ LET d == Step(out) IN
       CASE d = "retry" ->
              /\ polls < MaxPoll
              /\ polls' = polls + 1
              /\ UNCHANGED <<pc, lvl, log, ret>>
         [] d = "continue" ->
              /\ polls' = 0
              /\ log' = Append(log, Ev("send", idx, SendWord(words, idx), out))
              /\ pc' = "read"
              /\ UNCHANGED <<lvl, ret>>
         [] OTHER ->
              /\ polls' = 0
              /\ log' = Append(log, Ev("send", idx, SendWord(words, idx), out))
              /\ ReturnFrom(0, Err(out))
    /\ UNCHANGED <<depth, op, orig, words, idx>>
    /\ UNCHANGED pinvars

\* block!(self.try_read())?
Read(out, w) ==
    /\ pc = "read"
    /\ LET d == Step(out) IN
       CASE d = "retry" ->
              /\ w = 0
              /\ polls < MaxPoll
              /\ polls' = polls + 1
              /\ UNCHANGED <<pc, lvl, log, ret, words>>
         [] d = "continue" ->
              /\ out = "ok" \/ w = 0
              /\ polls' = 0
              /\ log' = Append(log, Ev("read", idx, w, out))
              /\ words' = IF out = "ok" THEN StoreWord(op, words, idx, w) ELSE words
              /\ pc' = "loop"
              /\ UNCHANGED <<lvl, ret>>
         [] OTHER ->
              /\ w = 0
              /\ polls' = 0
              /\ log' = Append(log, Ev("read", idx, 0, out))
              /\ ReturnFrom(0, Err(out))
              /\ UNCHANGED words
    /\ UNCHANGED <<depth, op, orig, idx>>
    /\ UNCHANGED pinvars

\* ---- SpiWithCs: deassert chip select and report ---------------------------
\* (a wrapper that returns the captured result without deasserting)
SetHighMissing(r) ==
    /\ pc = "high"
    /\ r = "ok"
    /\ ReturnFrom(lvl, MapErrSpi(ret[lvl - 1]))
    /\ UNCHANGED <<depth, op, orig, words, idx, polls, log>>
    /\ UNCHANGED pinvars

\* (a wrapper that tries the deassert again when it fails)
SetHighRetry(r) ==
    /\ pc = "high"
    /\ log' = Append(log, Ev("high", lvl, 0, r))
    /\ IF r = "ok"
         THEN ReturnFrom(lvl, MapErrSpi(ret[lvl - 1]))
         ELSE UNCHANGED <<pc, lvl, ret>>
    /\ UNCHANGED <<depth, op, orig, words, idx, polls>>
    /\ UNCHANGED pinvars

\* r: what try_set_high returned.
SetHigh(r) ==
    /\ pc = "high"
    /\ log' = Append(log, Ev("high", lvl, 0, r))
    /\ ReturnFrom(lvl, WrapperResult(ret[lvl - 1], r))
    /\ UNCHANGED <<depth, op, orig, words, idx, polls>>
    /\ UNCHANGED pinvars

\* ---- the call returns to the driver ---------------------------------------
Return ==
    /\ pc = "done"
    /\ pc' = "idle"
    /\ lvl' = 0
    /\ op' = "transfer"
    /\ orig' = <<>>
    /\ words' = <<>>
    /\ idx' = 0
    /\ polls' = 0
    /\ log' = <<>>
    /\ ret' = [l \in Levels |-> NoRes]
    /\ UNCHANGED depth
    /\ UNCHANGED pinvars

Next ==
    \/ New
    \/ \E o \in Ops, b \in Buffers : Call(o, b)
    \/ \E r \in {"ok"} \cup PinErrs : SetLow(r)
    \/ LoopNext
    \/ LoopEnd
    \/ \E out \in {"ok", "wb"} \cup BusErrs : Send(out)
    \/ \E out \in {"ok", "wb"} \cup BusErrs, w \in Words : Read(out, w)
    \/ \E r \in {"ok"} \cup PinErrs : SetHigh(r)
    \/ Return

Spec == Init /\ [][Next]_vars

\* A bare bus driven through the default adapters only.  The loop is the
\* only thread and never pauses; the primitive is assumed to stop answering
\* would-block at some point (weak fairness of its other answers).
NextAdapter ==
    \/ \E o \in Ops, b \in Buffers : Call(o, b)
    \/ LoopNext
    \/ LoopEnd
    \/ \E out \in {"ok", "wb"} \cup BusErrs : Send(out)
    \/ \E out \in {"ok", "wb"} \cup BusErrs, w \in Words : Read(out, w)
    \/ Return

SpecPoll ==
    /\ Init
    /\ [][NextAdapter]_vars
    /\ WF_vars(LoopNext)
    /\ WF_vars(LoopEnd)
    /\ WF_vars(\E out \in {"ok"} \cup BusErrs : Send(out))
    /\ WF_vars(\E out \in {"ok"} \cup BusErrs, w \in Words : Read(out, w))

TypeOK ==
    /\ depth \in 0..MaxDepth
    /\ pc \in {"idle", "low", "loop", "send", "read", "high", "done"}
    /\ lvl \in Levels
    /\ op \in Ops
    /\ orig \in Buffers
    /\ words \in Buffers
    /\ Len(words) = Len(orig)
    /\ idx \in 0..MaxLen
    /\ polls \in 0..MaxPoll

\* ---- digital: the software toggle (toggleable::Default) ------------------
\* The pin is the doc-test's MyPin { state: bool }.
set_low(st) == FALSE
set_high(st) == TRUE
is_set_low(st) == ~st
is_set_high(st) == st

\* fn toggle(&mut self): if self.is_set_low() { set_high } else { set_low }
toggle_inverted_test(st) == IF is_set_high(st) THEN set_high(st) ELSE set_low(st)
toggle(st) == IF is_set_low(st) THEN set_high(st) ELSE set_low(st)

\* MyPin { state: .. }: a pin constructed in either state.
InitPinAny ==
    /\ pstate \in BOOLEAN
    /\ pinit = pstate
    /\ phist = <<>>

PinToggle ==
    /\ Len(phist) < MaxPinOps
    /\ pstate' = toggle(pstate)
    /\ phist' = Append(phist, "toggle")
    /\ UNCHANGED <<pinit, busvars>>

PinSetLow ==
    /\ Len(phist) < MaxPinOps
    /\ pstate' = set_low(pstate)
    /\ phist' = Append(phist, "set_low")
    /\ UNCHANGED <<pinit, busvars>>

PinSetHigh ==
    /\ Len(phist) < MaxPinOps
    /\ pstate' = set_high(pstate)
    /\ phist' = Append(phist, "set_high")
    /\ UNCHANGED <<pinit, busvars>>

NextPin ==
    \/ PinToggle
    \/ PinSetLow
    \/ PinSetHigh

\* The pin of the example, with an idle bus beside it.
InitDigital == InitBus /\ InitPinAny

SpecPin == InitDigital /\ [][NextPin]_vars

\* ---- reading the log ------------------------------------------------------
Kinds(evs) == [i \in 1..Len(evs) |-> evs[i].k]

\* What wrapper L itself did: its two pin operations and its one call of the
\* bus capability it wraps (level L - 1).
Own(L) ==
    LET Mine(e) == \/ e.k \in {"low", "high"} /\ e.l = L
                   \/ e.k = "call" /\ e.l = L - 1
    IN SelectSeq(log, Mine)

\* Everything done below wrapper L: by the wrapped capability and under it.
Below(e, L) == e.k \in {"send", "read"} \/ (e.k \in {"low", "high"} /\ e.l < L)

PinEv(k, L) == LET Is(e) == e.k = k /\ e.l = L IN SelectSeq(log, Is)
PinOk(k, L) == \E i \in 1..Len(log) : log[i] = Ev(k, L, 0, "ok")
PinFailed(k, L, p) == \E i \in 1..Len(log) : log[i] = Ev(k, L, 0, p)
Pos(k, L) == CHOOSE i \in 1..Len(log) : log[i].k = k /\ log[i].l = L

\* The drive state wrapper L's pin was last put in by an operation of this
\* call that succeeded ("low", "high"), "unknown" before the first one.
CsDrive(L) ==
    LET Is(e) == e.k \in {"low", "high"} /\ e.l = L /\ e.r = "ok"
        done == SelectSeq(log, Is)
    IN IF done = <<>> THEN "unknown" ELSE done[Len(done)].k

\* The primitive operations of the adapter, in order.
Prim == LET Is(e) == e.k \in {"send", "read"} IN SelectSeq(log, Is)
Sends == LET Is(e) == e.k = "send" IN SelectSeq(log, Is)
Reads == LET Is(e) == e.k = "read" IN SelectSeq(log, Is)

Wrappers == 1..depth

\* ---- C1 -------------------------------------------------------------------
\* C1: in every SpiWithCs call (try_transfer, try_write, try_write_iter) whose
\* set_low, inner bus operation and set_high all succeed, the wrapper makes
\* exactly set_low, one inner bus operation, set_high, in that order, every
\* operation below the wrapper falls between the two pin operations, and the
\* wrapper returns the inner operation's result unchanged.
C1_Bracketing ==
    \A L \in Wrappers :
        (Returned(ret[L]) /\ PinOk("low", L) /\ IsOk(ret[L - 1])
           /\ ~(\E p \in PinErrs : PinFailed("high", L, p)))
        => LET own == Own(L)
               lo == Pos("low", L)
               hi == Pos("high", L)
           IN /\ Kinds(own) = <<"low", "call", "high">>
              /\ \A i \in 1..Len(own) : own[i].r = "ok"
              /\ \A j \in 1..Len(log) : Below(log[j], L) => lo < j /\ j < hi
              /\ ret[L] = ret[L - 1]

C1_Witness ==
    /\ pc = "done" /\ depth = 1 /\ op = "transfer" /\ Len(orig) = 2
    /\ IsOk(ret[1]) /\ ret[1].val = words /\ words # orig
    /\ Kinds(log) = <<"call", "low", "call", "send", "read", "send", "read", "high">>

\* ---- C2 -------------------------------------------------------------------
\* C2: when set_low succeeds and the inner bus operation fails with e,
\* set_high is still invoked, after the bus operation, and if it succeeds the
\* call returns Spi(e).
C2_BusErrorStillDeasserts ==
    \A L \in Wrappers :
        (Returned(ret[L]) /\ PinOk("low", L) /\ IsErr(ret[L - 1]))
        => LET hi == Pos("high", L)
           IN /\ Len(PinEv("high", L)) = 1
              /\ Kinds(Own(L)) = <<"low", "call", "high">>
              /\ \A j \in 1..Len(log) : Below(log[j], L) => j < hi
              /\ PinOk("high", L) =>
                   ret[L] = [tag |-> <<"Spi">> \o ret[L - 1].tag, val |-> <<>>]

C2_Witness ==
    /\ pc = "done" /\ depth = 1 /\ op = "write"
    /\ ret[0].tag = <<"E2">>
    /\ PinOk("high", 1)
    /\ ret[1].tag = <<"Spi", "E2">>

\* ---- C3 -------------------------------------------------------------------
\* C3: when set_low fails with p, the wrapped bus capability is never called
\* in that call and the call returns Pin(p).
C3_AssertFailureSkipsBus ==
    \A L \in Wrappers : \A p \in PinErrs :
        PinFailed("low", L, p)
        => /\ ~(\E i \in 1..Len(log) : log[i].k = "call" /\ log[i].l = L - 1)
           /\ ~(\E i \in 1..Len(log) : Below(log[i], L))
           /\ ~Returned(ret[L - 1])
           /\ ret[L] = [tag |-> <<"Pin", p>>, val |-> <<>>]

C3_Witness ==
    /\ pc = "done" /\ depth = 1 /\ op = "transfer" /\ Len(orig) = 2
    /\ PinFailed("low", 1, "P1")
    /\ ret[1].tag = <<"Pin", "P1">>

\* ---- C4 -------------------------------------------------------------------
\* C4: when set_low succeeds and set_high fails with p, the call returns
\* Pin(p), whether the inner bus operation returned a value or an error.
C4_DeassertFailureWins ==
    \A L \in Wrappers : \A p \in PinErrs :
        (PinOk("low", L) /\ PinFailed("high", L, p))
        => /\ Returned(ret[L - 1])
           /\ ret[L] = [tag |-> <<"Pin", p>>, val |-> <<>>]

C4_Witness ==
    /\ pc = "done" /\ depth = 1 /\ op = "transfer"
    /\ ret[0].tag = <<"E1">>
    /\ PinFailed("high", 1, "P2")
    /\ ret[1].tag = <<"Pin", "P2">>

\* ---- C5 -------------------------------------------------------------------
\* C5 (as claimed): whenever an SpiWithCs call returns, with success or with
\* any error, that call has driven the chip-select pin high before returning.
C5_AlwaysReleased ==
    \A L \in Wrappers :
        Returned(ret[L]) => PinOk("high", L) /\ CsDrive(L) = "high"

\* C5 (amended): an SpiWithCs call whose set_low succeeded invokes set_high
\* exactly once, after everything below it, before it returns; and a call that
\* returns success or a bus-domain error has driven the pin high.
C5_ReleasedAfterAssert ==
    \A L \in Wrappers :
        Returned(ret[L])
        => /\ PinOk("low", L)
                => LET hi == Pos("high", L)
                   IN /\ Len(PinEv("high", L)) = 1
                      /\ \A j \in 1..Len(log) : Below(log[j], L) => j < hi
           /\ ret[L].tag[1] \in {"Ok", "Spi"}
                => PinOk("low", L) /\ PinOk("high", L) /\ CsDrive(L) = "high"

C5_Witness ==
    /\ pc = "done" /\ depth = 1 /\ op = "write_iter"
    /\ ret[1].tag = <<"Spi", "E1">>
    /\ PinOk("low", 1) /\ PinOk("high", 1) /\ CsDrive(1) = "high"

\* ---- C6 -------------------------------------------------------------------
\* The primitive behaved as an echo stub: every read returned the word of the
\* send just before it.
Echoed ==
    LET P == Prim
    IN \A i \in 1..Len(P) :
         P[i].k = "read" => i > 1 /\ P[i - 1].k = "send" /\ P[i].w = P[i - 1].w

Alternating(evs) ==
    \A i \in 1..Len(evs) : evs[i].k = (IF i % 2 = 1 THEN "send" ELSE "read")

\* C6: a default try_transfer of a buffer of length N (N = 0 included) that
\* succeeds against an echoing primitive returns a buffer equal to the
\* original, after exactly N sends and N reads that alternate send, read, ...
C6_EchoRoundTrip ==
    (op = "transfer" /\ IsOk(ret[0]) /\ Echoed)
    => /\ ret[0].val = orig
       /\ words = orig
       /\ Len(Sends) = Len(orig)
       /\ Len(Reads) = Len(orig)
       /\ Alternating(Prim)

C6_Witness ==
    /\ pc = "done" /\ depth = 0 /\ op = "transfer"
    /\ orig = <<1, 0>> /\ IsOk(ret[0]) /\ Echoed
    /\ ret[0].val = <<1, 0>>
    /\ Kinds(log) = <<"call", "send", "read", "send", "read">>

\* ---- C7 -------------------------------------------------------------------
\* C7: in the default try_transfer and try_write, a send or read of index k
\* that fails with a real error is the last primitive operation of the call:
\* the call returns exactly that error, nothing is sent or read for a later
\* index, the loop is left, and a failed send of k is not followed by a read
\* of k.
C7_FirstFailureAborts ==
    op \in {"transfer", "write"} =>
        LET P == Prim
        IN \A i \in 1..Len(P) :
             P[i].r # "ok"
             => /\ i = Len(P)
                /\ ret[0] = [tag |-> <<P[i].r>>, val |-> <<>>]
                /\ pc \notin {"loop", "send", "read"}
                /\ \A j \in 1..Len(P) : P[j].l <= P[i].l
                /\ idx = P[i].l
                /\ P[i].k = "send" =>
                     ~(\E j \in 1..Len(P) : P[j].k = "read" /\ P[j].l = P[i].l)

C7_Witness ==
    /\ pc = "done" /\ depth = 0 /\ op = "write" /\ Len(orig) = 2
    /\ Kinds(log) = <<"call", "send", "read", "send">>
    /\ log[4].l = 2 /\ log[4].r = "E1"
    /\ ret[0].tag = <<"E1">>

\* ---- C8 -------------------------------------------------------------------
\* The primitive behaved as a position-tagging stub: the i-th read (counting
\* from 0) returned i.
Tagged == LET R == Reads IN \A i \in 1..Len(R) : R[i].w = i - 1

\* C8: a default try_transfer of length N that succeeds sent the words in
\* increasing index order, the word sent for index i being the caller's
\* original word at i; position i of the returned buffer holds the word the
\* i-th read received, and the buffer still has N words (so with a tagging
\* primitive position i holds i).
C8_PositionalExchange ==
    (op = "transfer" /\ IsOk(ret[0]))
    => LET S == Sends
           R == Reads
       IN /\ Len(S) = Len(orig)
          /\ Len(R) = Len(orig)
          /\ Len(ret[0].val) = Len(orig)
          /\ Len(words) = Len(orig)
          /\ \A i \in 1..Len(orig) :
               /\ S[i].l = i
               /\ S[i].w = orig[i]
               /\ R[i].l = i
               /\ ret[0].val[i] = R[i].w
               /\ words[i] = R[i].w
          /\ Tagged => \A i \in 1..Len(orig) : ret[0].val[i] = i - 1

C8_Witness ==
    /\ pc = "done" /\ depth = 0 /\ op = "transfer"
    /\ orig = <<1, 0>> /\ IsOk(ret[0]) /\ Tagged
    /\ ret[0].val = <<0, 1>>

C10_NoNestedToggling ==
    ~(\E L \in Wrappers : \E M \in Wrappers :
        /\ L < M
        /\ PinOk("low", M) /\ PinOk("low", L) /\ PinOk("high", L) /\ PinOk("high", M)
        /\ Pos("low", M) < Pos("low", L)
        /\ Pos("high", L) < Pos("high", M))

\* ---- C11 ------------------------------------------------------------------
\* The last operation in phist that set the pin outright (0: none yet).
LastSet ==
    LET sets == {i \in 1..Len(phist) : phist[i] # "toggle"}
    IN IF sets = {} THEN 0 ELSE CHOOSE i \in sets : \A j \in sets : j <= i

\* C11: with the software toggle, k toggles in a row leave the pin in the
\* state it had before them iff k is even (one toggle turns set-low into
\* set-high and set-high into set-low), whatever that state was.
C11_ToggleParity ==
    LET j == LastSet
        base == IF j = 0 THEN pinit ELSE phist[j] = "set_high"
        k == Len(phist) - j
    IN /\ (pstate = base) <=> (k % 2 = 0)
       /\ is_set_high(pstate) = ~is_set_low(pstate)

C11_Witness ==
    /\ phist = <<"set_low", "toggle", "toggle", "toggle">>
    /\ is_set_high(pstate)

\* ---- C12 ------------------------------------------------------------------
\* C12: when set_low fails, the wrapper returns without attempting set_high:
\* its pin sees exactly one operation in that call, the failed set_low.
C12_NoDeassertAfterFailedAssert ==
    \A L \in Wrappers : \A p \in PinErrs :
        PinFailed("low", L, p)
        => LET Is(e) == e.k \in {"low", "high"} /\ e.l = L
               mine == SelectSeq(log, Is)
           IN /\ mine = <<Ev("low", L, 0, p)>>
              /\ Returned(ret[L])

C12_Witness ==
    /\ pc = "done" /\ depth = 2
    /\ PinOk("low", 2) /\ PinFailed("low", 1, "P2")
    /\ Len(PinEv("high", 1)) = 0
    /\ Len(PinEv("high", 2)) = 1

\* ---- C13 ------------------------------------------------------------------
\* C13: a default try_transfer that fails at index k of N leaves, on return,
\* the received word of exchange i in every position i < k and the caller's
\* original word in every position i >= k (position k too when its send
\* succeeded and its read failed); the buffer still has N words.
C13_NoRollback ==
    (op = "transfer" /\ IsErr(ret[0]))
    => LET P == Prim
           R == Reads
           k == P[Len(P)].l
       IN /\ Len(P) > 0 /\ P[Len(P)].r # "ok"
          /\ Len(words) = Len(orig)
          /\ \A i \in 1..Len(orig) :
               words[i] = IF i < k THEN R[i].w ELSE orig[i]

C13_Witness ==
    /\ pc = "done" /\ depth = 0 /\ op = "transfer"
    /\ orig = <<0, 0>> /\ words = <<1, 0>>
    /\ Kinds(log) = <<"call", "send", "read", "send", "read">>
    /\ log[5].r = "E2" /\ ret[0].tag = <<"E2">>

\* ---- C14 ------------------------------------------------------------------
\* C14: the default try_write_iter pulls the elements of its sequence one by
\* one, in order and never twice: the j-th element pulled is the j-th word
\* sent and is followed by one read, nothing is pulled after the first
\* failing send or read, and a call that succeeds has sent every element.
C14_IterConsumedOnce ==
    op = "write_iter" =>
        LET P == Prim
            S == Sends
        IN /\ idx <= Len(orig)
           /\ Len(S) = (IF pc = "send" THEN idx - 1 ELSE idx)
           /\ \A j \in 1..Len(S) : S[j].l = j /\ S[j].w = orig[j]
           /\ \A i \in 1..Len(P) :
                /\ (P[i].k = "send" /\ P[i].r = "ok") =>
                     IF i = Len(P)
                       THEN pc = "read"
                       ELSE P[i + 1].k = "read" /\ P[i + 1].l = P[i].l
                /\ P[i].k = "read" => i > 1 /\ P[i - 1].k = "send"
                /\ P[i].r # "ok" =>
                     /\ i = Len(P)
                     /\ idx = P[i].l
                     /\ pc \notin {"loop", "send", "read"}
           /\ IsOk(ret[0]) => Len(S) = Len(orig) /\ idx = Len(orig)

C14_Witness ==
    /\ pc = "done" /\ depth = 0 /\ op = "write_iter"
    /\ orig = <<1, 0>> /\ IsOk(ret[0])
    /\ Len(Sends) = 2 /\ Sends[1].w = 1 /\ Sends[2].w = 0

\* ---- C15 ------------------------------------------------------------------
\* C15: an error returned by an SpiWithCs call is Pin(p) only if set_low or
\* set_high of that wrapper returned p in that call, and otherwise Spi(e)
\* with e exactly the error the wrapped bus operation returned; nothing else.
C15_ErrorsTaggedByDomain ==
    \A L \in Wrappers :
        IsErr(ret[L])
        => \/ /\ Len(ret[L].tag) = 2
              /\ ret[L].tag[1] = "Pin"
              /\ ret[L].tag[2] \in PinErrs
              /\ PinFailed("low", L, ret[L].tag[2]) \/ PinFailed("high", L, ret[L].tag[2])
           \/ /\ ret[L].tag[1] = "Spi"
              /\ IsErr(ret[L - 1])
              /\ Tail(ret[L].tag) = ret[L - 1].tag
              /\ ~(\E p \in PinErrs : PinFailed("low", L, p) \/ PinFailed("high", L, p))

C15_Witness ==
    /\ pc = "done" /\ depth = 2
    /\ ret[0].tag = <<"Ok">>
    /\ ret[1].tag = <<"Pin", "P1">>
    /\ ret[2].tag = <<"Spi", "Pin", "P1">>

\* ---- C16 ------------------------------------------------------------------
InLoop == pc \in {"loop", "send", "read"}

\* Would-block never surfaces: it is neither a completed operation nor a
\* result, and no index is sent twice.
PollInv ==
    /\ \A i \in 1..Len(log) : log[i].r # "wb"
    /\ ret[0].tag # <<"wb">>
    /\ LET S == Sends IN \A i \in 1..Len(S) : S[i].l = i

\* A would-block answer changes nothing but the poll count; a send or read
\* is left only through an answer of that very operation that is not
\* would-block; while a read is pending nothing is sent.
PollStep ==
    /\ (pc \in {"send", "read"} /\ polls' = polls + 1)
         => /\ pc' = pc /\ idx' = idx /\ log' = log
            /\ words' = words /\ ret' = ret
    /\ (pc \in {"send", "read"} /\ pc' # pc)
         => /\ Len(log') = Len(log) + 1
            /\ log'[Len(log')].k = pc
            /\ log'[Len(log')].l = idx
            /\ log'[Len(log')].r \in {"ok"} \cup BusErrs
    /\ (pc = "read" /\ pc' = "read") => log' = log

\* C16: a send or read that reports would-block is invoked again, the same
\* operation, until it reports success or a real error, and a word already
\* sent is not sent again while its read is polled; there is no other way
\* out of the poll (no timeout), and when every primitive operation stops
\* reporting would-block at some point the bulk call returns.
C16_PollUntilAnswer ==
    /\ []PollInv
    /\ [][PollStep]_vars
    /\ (InLoop ~> Returned(ret[0]))

C16_Witness ==
    /\ op = "transfer" /\ Len(orig) = 2
    /\ pc = "read" /\ idx = 2 /\ polls = MaxPoll /\ polls > 0
    /\ Len(Sends) = 2

\* ---- C17 ------------------------------------------------------------------
\* C17: nothing is retried.  In one SpiWithCs call the wrapper invokes
\* set_low at most once, the wrapped bus operation at most once and set_high
\* at most once, whatever fails; in the default adapters a send or read that
\* returned a real error is the last primitive operation of the call.
C17_NoRetries ==
    /\ \A L \in Wrappers :
         LET IsCall(e) == e.k = "call" /\ e.l = L - 1
         IN /\ Len(PinEv("low", L)) <= 1
            /\ Len(PinEv("high", L)) <= 1
            /\ Len(SelectSeq(log, IsCall)) <= 1
    /\ LET P == Prim
       IN \A i \in 1..Len(P) : P[i].r # "ok" => i = Len(P) /\ ~InLoop

C17_Witness ==
    /\ pc = "done" /\ depth = 1 /\ op = "write" /\ Len(orig) = 2
    /\ ret[0].tag = <<"E1">>
    /\ PinFailed("high", 1, "P1")
    /\ Kinds(log) = <<"call", "low", "call", "send", "read", "high">>

\* ---- C18 ------------------------------------------------------------------
\* C18: the bus capability a wrapper wraps runs only while that wrapper's
\* chip select is driven low: while the wrapped operation is in progress the
\* wrapper's latest successful pin operation is set_low, and every operation
\* below the wrapper comes after its successful set_low and before any of its
\* set_high.
C18_BusOnlyWhileSelected ==
    \A L \in Wrappers :
        /\ ((\E i \in 1..Len(log) : log[i].k = "call" /\ log[i].l = L - 1)
              /\ ~Returned(ret[L - 1]))
             => CsDrive(L) = "low"
        /\ \A j \in 1..Len(log) :
             (Below(log[j], L) \/ (log[j].k = "call" /\ log[j].l = L - 1))
             => /\ \E i \in 1..(j - 1) : log[i] = Ev("low", L, 0, "ok")
                /\ ~(\E i \in 1..(j - 1) : log[i].k = "high" /\ log[i].l = L)

C18_Witness ==
    /\ depth = 2 /\ pc = "read" /\ idx = 2
    /\ CsDrive(1) = "low" /\ CsDrive(2) = "low"

\* ---- C19 ------------------------------------------------------------------
\* C19 (as claimed): after a successful set_low and a successful inner
\* try_transfer, a failing set_high makes the call return Pin(p) with all N
\* words exchanged and the received words in the caller's buffer; and a
\* wrapper call leaves a (non-empty) buffer unchanged only when set_low
\* itself fails.
C19_UnchangedOnlyIfAssertFailed ==
    (pc = "done" /\ depth = 1 /\ op = "transfer")
    => /\ \A p \in PinErrs :
            (PinOk("low", 1) /\ IsOk(ret[0]) /\ PinFailed("high", 1, p))
            => /\ ret[1].tag = <<"Pin", p>>
               /\ Len(Reads) = Len(orig)
               /\ \A i \in 1..Len(orig) : words[i] = Reads[i].w
       /\ (Len(orig) > 0 /\ words = orig)
            => \E p \in PinErrs : PinFailed("low", 1, p)

\* C19 (amended): the wrapper undoes nothing.  Whatever an SpiWithCs
\* try_transfer returns, the buffer holds the word received by every read
\* that succeeded and the caller's word everywhere else; so after set_low,
\* transfer succeed and set_high fails the call returns Pin(p) with all N
\* words exchanged and received, and when set_low fails nothing was sent or
\* read and the buffer is unchanged.
C19_SideEffectsKept ==
    \A L \in Wrappers :
        (Returned(ret[L]) /\ op = "transfer")
        => LET R == Reads
               got == {i \in 1..Len(R) : R[i].r = "ok"}
           IN /\ \A i \in 1..Len(orig) :
                   words[i] = IF i \in got THEN R[i].w ELSE orig[i]
              /\ \A p \in PinErrs :
                   (PinOk("low", L) /\ IsOk(ret[L - 1]) /\ PinFailed("high", L, p))
                   => /\ ret[L].tag = <<"Pin", p>>
                      /\ Len(Sends) = Len(orig)
                      /\ got = 1..Len(orig)
              /\ (\E p \in PinErrs : PinFailed("low", L, p))
                   => Prim = <<>> /\ words = orig

C19_Witness ==
    /\ pc = "done" /\ depth = 1 /\ op = "transfer"
    /\ orig = <<0, 0>> /\ words = <<1, 1>>
    /\ IsOk(ret[0]) /\ ret[0].val = <<1, 1>>
    /\ ret[1] = [tag |-> <<"Pin", "P1">>, val |-> <<>>]
====
